---- MODULE Spec2Model ----
(***************************************************************************)
(* Model of rcpsp_j90_no_bound_only_time_per_instance.py.                  *)
(*                                                                         *)
(* solve_rcpsp reads one instance file, posts a CP model (interval         *)
(* variables, end_before_start precedences, pulse sums bounded by the      *)
(* capacities, minimize(max end)), runs the CP Optimizer under a time      *)
(* limit and classifies what comes back.  main selects the instance files  *)
(* and writes one CSV row per file.                                        *)
(*                                                                         *)
(* The CP Optimizer is a library: it is modelled by its contract (a        *)
(* returned solution satisfies every posted constraint and carries the     *)
(* value of the posted objective; "Optimal" is reported only for a         *)
(* minimum, after a complete search).                                      *)
(***************************************************************************)
EXTENDS Integers, Sequences, FiniteSets, TLC

\* ------------------------------------------------------------------------
\* Bounds of the model
\* ------------------------------------------------------------------------
MaxTasks == 2
MaxRes == 1
MaxDur == 1
MaxDemand == 2
MaxCap == 2
MaxSucc == 1


\* ------------------------------------------------------------------------
\* Tokens and lines of an instance file
\* ------------------------------------------------------------------------
\* A whitespace-separated token: text that int() accepts, or text it rejects.
Tok(n) == <<"int", n>>
Junk == <<"str", 0>>
IsIntTok(tok) == tok[1] = "int"
IntOf(tok) == tok[2]
ToksOf(ints) == [k \in 1..Len(ints) |-> Tok(ints[k])]

\* [int(v) for v in line]: the values, or a ValueError
AllInt(line) == \A k \in 1..Len(line) : IsIntTok(line[k])
Ints(line) == [k \in 1..Len(line) |-> IntOf(line[k])]

\* Python list indexing lst[i] (0-based, negative indices count from the end)
IndexOk(len, i) == (0 - len) <= i /\ i < len
IndexPos(len, i) == IF i >= 0 THEN i + 1 ELSE len + i + 1

\* Python slice lst[a:b] and lst[a:] for a, b >= 0
MinOf(a, b) == IF a <= b THEN a ELSE b
Slice(lst, a, b) == SubSeq(lst, a + 1, MinOf(b, Len(lst)))
SliceFrom(lst, a) == SubSeq(lst, a + 1, Len(lst))

\* file.readline() of the k-th line of the task block: '' past the end
TaskLine(f, k) == IF k <= Len(f.task_lines) THEN f.task_lines[k] ELSE <<>>

\* ------------------------------------------------------------------------
\* Instance files the model draws its input from
\* ------------------------------------------------------------------------
SeqsUpTo(S, n) == UNION {[1..k -> S] : k \in 0..n}

\* A file laid out as the format says, from its fields.
FileOf(n, r, bound, caps, dur, dem, succ) ==
    [first_line |-> <<Tok(n), Tok(r)>> \o bound,
     cap_line   |-> ToksOf(caps),
     task_lines |-> [t \in 1..n |->
                       <<Tok(dur[t])>> \o ToksOf(dem[t])
                         \o <<Tok(Len(succ[t]))>> \o ToksOf(succ[t])]]

\* The header's optional third token: absent, a number, or text
BoundTokens == {<<>>, <<Tok(0)>>, <<Tok(MaxDur)>>, <<Junk>>}

\* Successor ids: every task id, one id below the range and one above it.
LaidOutFiles ==
    UNION {
      {FileOf(n, r, bound, caps, dur, dem, succ) :
          bound \in BoundTokens,
          caps \in [1..r -> 1..MaxCap],
          dur \in [1..n -> 0..MaxDur],
          dem \in [1..n -> [1..r -> 0..MaxDemand]],
          succ \in [1..n -> SeqsUpTo(0..(n + 1), MaxSucc)]}
      : n \in 1..MaxTasks, r \in 0..MaxRes}

\* The laid-out files without a bound token whose successor ids are task ids
PlainFiles ==
    UNION {
      {FileOf(n, r, <<>>, caps, dur, dem, succ) :
          caps \in [1..r -> 1..MaxCap],
          dur \in [1..n -> 0..MaxDur],
          dem \in [1..n -> [1..r -> 0..MaxDemand]],
          succ \in [1..n -> SeqsUpTo(1..n, MaxSucc)]}
      : n \in 1..MaxTasks, r \in 0..MaxRes}

ReplaceAt(line, k, tok) == [line EXCEPT ![k] = tok]

\* Ways of damaging a line: cut it short, put text where a number belongs,
\* change one number by one, add a token.
DamagedLines(line) ==
    {SubSeq(line, 1, k) : k \in 0..(Len(line) - 1)}
    \cup {ReplaceAt(line, k, Junk) : k \in 1..Len(line)}
    \cup {ReplaceAt(line, k, Tok(IntOf(line[k]) + 1)) : k \in 1..Len(line)}
    \cup {Append(line, Tok(1))}

\* The files obtained from f by damaging its header's first two tokens, its
\* capacity line, its last task line, or by dropping its last task line.
DamagedFiles(f) ==
    {[f EXCEPT !.first_line = h] :
        h \in {SubSeq(f.first_line, 1, k) : k \in 0..1}
              \cup {ReplaceAt(f.first_line, k, Junk) : k \in 1..2}}
    \cup {[f EXCEPT !.cap_line = c] : c \in DamagedLines(f.cap_line)}
    \cup {[f EXCEPT !.task_lines[Len(f.task_lines)] = l] :
            l \in DamagedLines(f.task_lines[Len(f.task_lines)])}
    \cup {[f EXCEPT !.task_lines = SubSeq(f.task_lines, 1, Len(f.task_lines) - 1)]}

MalformedFiles == UNION {DamagedFiles(f) : f \in PlainFiles}

\* solve_rcpsp's locals, its position (pc), the records it has returned
\* (ret) and the number of mdl.solve calls made
VARIABLES data_file, pc, NB_TASKS, NB_RESOURCES, CAPACITIES, TASKS,
          DURATIONS, DEMANDS, SUCCESSORS, mdl, res, ret, solver_calls

\* main's locals, its position (main_pc), the directory it globs and the
\* CSV file it writes
VARIABLES data_dir, main_pc, all_data_files, data_files, next_file,
          csv_header, csv_rows

solveVars == <<data_file, pc, NB_TASKS, NB_RESOURCES, CAPACITIES, TASKS,
               DURATIONS, DEMANDS, SUCCESSORS, mdl, res, ret, solver_calls>>

mainVars == <<data_dir, main_pc, all_data_files, data_files, next_file,
              csv_header, csv_rows>>

vars == <<solveVars, mainVars>>

\* ------------------------------------------------------------------------
\* solve_rcpsp: reading the file
\* ------------------------------------------------------------------------
\* The header's first two tokens go through int(); a third token is only
\* counted (len(first_line) > 2), never converted.
HeaderOk(f) ==
    /\ Len(f.first_line) >= 2
    /\ IsIntTok(f.first_line[1])
    /\ IsIntTok(f.first_line[2])

HeaderTasks(f) == IntOf(f.first_line[1])
HeaderResources(f) == IntOf(f.first_line[2])

\* Lines 39-49 complete without an exception.
ReadOk(f) ==
    /\ HeaderOk(f)
    /\ AllInt(f.cap_line)
    /\ \A k \in 1..HeaderTasks(f) : AllInt(TaskLine(f, k))

ReadTasks(f) == [k \in 1..HeaderTasks(f) |-> Ints(TaskLine(f, k))]

\* TASKS[t][0]: an IndexError on an empty line
ExtractOk(tasks) == \A t \in 1..Len(tasks) : IndexOk(Len(tasks[t]), 0)

DurationOf(line) == line[IndexPos(Len(line), 0)]
DemandsOf(line, nres) == Slice(line, 1, nres + 1)
SuccessorsOf(line, nres) == SliceFrom(line, nres + 2)

\* ------------------------------------------------------------------------
\* solve_rcpsp: the posted model
\* ------------------------------------------------------------------------
\* the successor id used as the index itself
SuccIndexNoShift(s) == s

\* tasks[s - 1]: the 0-based index the code uses for successor id s
SuccIndex(s) == s - 1

\* The (t, k) positions of the generator of line 63, in generation order
SuccPositions(succ) ==
    UNION {{<<t, k>> : k \in 1..Len(succ[t])} : t \in 1..Len(succ)}

GeneratedBefore(p, q) == p[1] < q[1] \/ (p[1] = q[1] /\ p[2] < q[2])

\* positions whose tasks[s - 1] raises IndexError
PrecRaising(n, succ) ==
    {p \in SuccPositions(succ) : ~IndexOk(n, SuccIndex(succ[p[1]][p[2]]))}

\* end_before_start(tasks[t], tasks[s - 1]) for the positions generated
\* before the first IndexError (all of them when none raises)
PostedPrecedences(n, succ) ==
    {[before |-> p[1],
      after  |-> IndexPos(n, SuccIndex(succ[p[1]][p[2]])),
      id     |-> succ[p[1]][p[2]]] :
        p \in {q \in SuccPositions(succ) :
                 \A b \in PrecRaising(n, succ) : GeneratedBefore(q, b)}}

\* DEMANDS[t][r] or CAPACITIES[r] raising IndexError for resource r (1-based)
CapRaising(n, nres, dem, caps) ==
    {r \in 1..nres : \/ \E t \in 1..n : ~IndexOk(Len(dem[t]), r - 1)
                     \/ ~IndexOk(Len(caps), r - 1)}

\* sum(pulse(tasks[t], DEMANDS[t][r]) ... if DEMANDS[t][r] > 0) <= CAPACITIES[r]
PostedCapacities(n, nres, dem, caps) ==
    {[resource |-> r,
      pulses   |-> {<<t, dem[t][r]>> : t \in {u \in 1..n : dem[u][r] > 0}},
      capacity |-> caps[r]] :
        r \in {q \in 1..nres : \A b \in CapRaising(n, nres, dem, caps) : q < b}}

\* the header's bound, when it is a number, posted as makespan <= bound
MakespanBoundFromHeader(first_line) ==
    IF Len(first_line) > 2 /\ IsIntTok(first_line[3])
    THEN {IntOf(first_line[3])} ELSE {}

\* Lines 43-46 and 76-77: no upper bound on the makespan is posted, whatever
\* the header holds.
MakespanBounds(first_line) == {}

NoModel == [sizes |-> <<>>, prec |-> {}, cap |-> {}, ub |-> {}, objective |-> "none"]

\* Lines 57-74 complete without an exception.
CreateOk(n, nres, caps, dem, succ) ==
    /\ PrecRaising(n, succ) = {}
    /\ CapRaising(n, nres, dem, caps) = {}

BuildModel(first_line, n, nres, caps, dur, dem, succ) ==
    [sizes     |-> dur,
     prec      |-> PostedPrecedences(n, succ),
     cap       |-> IF PrecRaising(n, succ) = {}
                   THEN PostedCapacities(n, nres, dem, caps) ELSE {},
     ub        |-> MakespanBounds(first_line),
     objective |-> IF CreateOk(n, nres, caps, dem, succ)
                   THEN "minimize_max_end" ELSE "none"]

\* ------------------------------------------------------------------------
\* The CP Optimizer (mdl.solve), by its contract
\* ------------------------------------------------------------------------
\* Start times the modelled solver tries: when a model has a solution it has
\* a minimum one in which no task starts later than the sum of the sizes.
RECURSIVE SumUpTo(_, _)
SumUpTo(sizes, k) == IF k = 0 THEN 0 ELSE sizes[k] + SumUpTo(sizes, k - 1)

Horizon(m) == SumUpTo(m.sizes, Len(m.sizes))

Schedules(m) == [1..Len(m.sizes) -> 0..Horizon(m)]

EndOf(m, st, t) == st[t] + m.sizes[t]

\* max(end_of(t) for t in tasks)
RECURSIVE MaxEndUpTo(_, _, _)
MaxEndUpTo(m, st, k) ==
    IF k = 0 THEN 0
    ELSE LET rest == MaxEndUpTo(m, st, k - 1)
         IN  IF EndOf(m, st, k) > rest THEN EndOf(m, st, k) ELSE rest

ObjectiveOf(m, st) == MaxEndUpTo(m, st, Len(m.sizes))

\* the height of a sum of pulses at an instant
RECURSIVE PulseSum(_, _, _, _)
PulseSum(m, st, pulses, at) ==
    IF pulses = {} THEN 0
    ELSE LET p == CHOOSE q \in pulses : TRUE
         IN  (IF st[p[1]] <= at /\ at < EndOf(m, st, p[1]) THEN p[2] ELSE 0)
               + PulseSum(m, st, pulses \ {p}, at)

Satisfies(m, st) ==
    /\ \A c \in m.prec : EndOf(m, st, c.before) <= st[c.after]
    /\ \A c \in m.cap : \A at \in 0..(2 * Horizon(m)) :
          PulseSum(m, st, c.pulses, at) <= c.capacity
    /\ \A b \in m.ub : ObjectiveOf(m, st) <= b

Solutions(m) == {st \in Schedules(m) : Satisfies(m, st)}

IsMinimum(m, st) ==
    \A other \in Solutions(m) : ObjectiveOf(m, st) <= ObjectiveOf(m, other)

NoResult ==
    [raised |-> FALSE, is_solution |-> FALSE, solve_status |-> "None",
     stop_cause |-> "None", objective_values |-> <<>>, starts |-> <<>>]

SolutionResult(m, st, status, cause) ==
    [raised |-> FALSE, is_solution |-> TRUE, solve_status |-> status,
     stop_cause |-> cause, objective_values |-> <<ObjectiveOf(m, st)>>,
     starts |-> st]

EmptyResult(status, cause) ==
    [raised |-> FALSE, is_solution |-> FALSE, solve_status |-> status,
     stop_cause |-> cause, objective_values |-> <<>>, starts |-> <<>>]

\* What mdl.solve(TimeLimit=...) can do with a posted model: finish the
\* search (a proven minimum, or a proof that there is no solution), stop at
\* the time limit with or without a solution in hand, or raise.
SolverOutcomes(m) ==
    {SolutionResult(m, st, "Optimal", "SearchCompleted") :
        st \in {x \in Solutions(m) : IsMinimum(m, x)}}
    \cup (IF Solutions(m) = {}
          THEN {EmptyResult("Infeasible", "SearchCompleted")} ELSE {})
    \cup {SolutionResult(m, st, "Feasible", "SearchStoppedByLimit") :
            st \in Solutions(m)}
    \cup {EmptyResult("Unknown", "SearchStoppedByLimit")}
    \cup {[NoResult EXCEPT !.raised = TRUE]}

\* ------------------------------------------------------------------------
\* solve_rcpsp: the returned record (makespan, status); None is <<>>
\* ------------------------------------------------------------------------
\* objective_values[0] if objective_values else None
FirstOrNone(values) == IF Len(values) > 0 THEN <<values[1]>> ELSE <<>>

\* the status mapping with the solver's status ignored
StatusAlwaysOptimal(r) == "optimal"

StatusOf(r) == IF r.solve_status = "Optimal" THEN "optimal" ELSE "feasible"

\* the classification with the no-solution branch reporting a solution
ClassifyNoneAsFeasible(r) ==
    [makespan |-> FirstOrNone(r.objective_values),
     status   |-> IF r.is_solution THEN StatusOf(r) ELSE "feasible"]

\* lines 85-112
Classify(r) ==
    IF r.is_solution
    THEN [makespan |-> FirstOrNone(r.objective_values), status |-> StatusOf(r)]
    ELSE [makespan |-> <<>>, status |-> "unknown"]

\* lines 114-119
ErrorRecord == [makespan |-> <<>>, status |-> "error"]

\* ------------------------------------------------------------------------
\* solve_rcpsp, step by step
\* ------------------------------------------------------------------------
InstanceFiles == LaidOutFiles \cup MalformedFiles

MainIdle ==
    /\ data_dir = {}
    /\ main_pc = "idle"
    /\ all_data_files = <<>>
    /\ data_files = <<>>
    /\ next_file = 0
    /\ csv_header = FALSE
    /\ csv_rows = <<>>

SolveAt(f, at) ==
    /\ data_file = f
    /\ pc = at
    /\ NB_TASKS = 0
    /\ NB_RESOURCES = 0
    /\ CAPACITIES = <<>>
    /\ TASKS = <<>>
    /\ DURATIONS = <<>>
    /\ DEMANDS = <<>>
    /\ SUCCESSORS = <<>>
    /\ mdl = NoModel
    /\ res = NoResult
    /\ ret = <<>>
    /\ solver_calls = 0

Init == (\E f \in InstanceFiles : SolveAt(f, "start")) /\ MainIdle

\* except Exception: return (None, "error", solve_time)
Raise ==
    /\ ret' = Append(ret, ErrorRecord)
    /\ pc' = "returned"

\* lines 39-49
ReadFile ==
    /\ pc = "start"
    /\ IF ReadOk(data_file)
       THEN /\ NB_TASKS' = HeaderTasks(data_file)
            /\ NB_RESOURCES' = HeaderResources(data_file)
            /\ CAPACITIES' = Ints(data_file.cap_line)
            /\ TASKS' = ReadTasks(data_file)
            /\ pc' = "read"
            /\ ret' = ret
       ELSE /\ Raise
            /\ UNCHANGED <<NB_TASKS, NB_RESOURCES, CAPACITIES, TASKS>>
    /\ UNCHANGED <<data_file, DURATIONS, DEMANDS, SUCCESSORS, mdl, res, solver_calls,
                   mainVars>>

\* lines 52-54
ExtractData ==
    /\ pc = "read"
    /\ IF ExtractOk(TASKS)
       THEN /\ DURATIONS' = [t \in 1..NB_TASKS |-> DurationOf(TASKS[t])]
            /\ DEMANDS' = [t \in 1..NB_TASKS |-> DemandsOf(TASKS[t], NB_RESOURCES)]
            /\ SUCCESSORS' = [t \in 1..NB_TASKS |-> SuccessorsOf(TASKS[t], NB_RESOURCES)]
            /\ pc' = "extracted"
            /\ ret' = ret
       ELSE /\ Raise
            /\ UNCHANGED <<DURATIONS, DEMANDS, SUCCESSORS>>
    /\ UNCHANGED <<data_file, NB_TASKS, NB_RESOURCES, CAPACITIES, TASKS, mdl, res,
                   solver_calls, mainVars>>

\* lines 57-74; the constraints posted before an IndexError stay in mdl
CreateModel ==
    /\ pc = "extracted"
    /\ mdl' = BuildModel(data_file.first_line, NB_TASKS, NB_RESOURCES, CAPACITIES,
                         DURATIONS, DEMANDS, SUCCESSORS)
    /\ IF CreateOk(NB_TASKS, NB_RESOURCES, CAPACITIES, DEMANDS, SUCCESSORS)
       THEN pc' = "modelled" /\ ret' = ret
       ELSE Raise
    /\ UNCHANGED <<data_file, NB_TASKS, NB_RESOURCES, CAPACITIES, TASKS, DURATIONS,
                   DEMANDS, SUCCESSORS, res, solver_calls, mainVars>>

\* line 81
SolveModel ==
    /\ pc = "modelled"
    /\ \E outcome \in SolverOutcomes(mdl) :
          /\ res' = outcome
          /\ IF outcome.raised
             THEN Raise
             ELSE pc' = "solved" /\ ret' = ret
    /\ solver_calls' = solver_calls + 1
    /\ UNCHANGED <<data_file, NB_TASKS, NB_RESOURCES, CAPACITIES, TASKS, DURATIONS,
                   DEMANDS, SUCCESSORS, mdl, mainVars>>

\* lines 85-112
ReturnResult ==
    /\ pc = "solved"
    /\ ret' = Append(ret, Classify(res))
    /\ pc' = "returned"
    /\ UNCHANGED <<data_file, NB_TASKS, NB_RESOURCES, CAPACITIES, TASKS, DURATIONS,
                   DEMANDS, SUCCESSORS, mdl, res, solver_calls, mainVars>>

Next == ReadFile \/ ExtractData \/ CreateModel \/ SolveModel \/ ReturnResult

Spec == Init /\ [][Next]_vars

\* ------------------------------------------------------------------------
\* solve_rcpsp as a whole: the model it posts for a file and the records it
\* can return
\* ------------------------------------------------------------------------
ModelOf(f) ==
    IF ReadOk(f) /\ ExtractOk(ReadTasks(f))
    THEN LET n == HeaderTasks(f)
             nres == HeaderResources(f)
             tasks == ReadTasks(f)
         IN  BuildModel(f.first_line, n, nres, Ints(f.cap_line),
                        [t \in 1..n |-> DurationOf(tasks[t])],
                        [t \in 1..n |-> DemandsOf(tasks[t], nres)],
                        [t \in 1..n |-> SuccessorsOf(tasks[t], nres)])
    ELSE NoModel

solve_rcpsp(f) ==
    IF ModelOf(f).objective = "none"
    THEN {ErrorRecord}
    ELSE {IF o.raised THEN ErrorRecord ELSE Classify(o) :
             o \in SolverOutcomes(ModelOf(f))}

\* ------------------------------------------------------------------------
\* The instance format, read directly from the file's tokens:
\*   NB_TASKS NB_RESOURCES [bound]
\*   one capacity per resource
\*   per task: duration, one demand per resource, num_successors, the ids
\* ------------------------------------------------------------------------
FmtTasks(f) == IntOf(f.first_line[1])
FmtResources(f) == IntOf(f.first_line[2])

WellFormed(f) ==
    /\ Len(f.first_line) \in {2, 3}
    /\ IsIntTok(f.first_line[1])
    /\ IsIntTok(f.first_line[2])
    /\ AllInt(f.cap_line)
    /\ Len(f.cap_line) = FmtResources(f)
    /\ Len(f.task_lines) >= FmtTasks(f)
    /\ \A t \in 1..FmtTasks(f) :
          /\ AllInt(f.task_lines[t])
          /\ Len(f.task_lines[t]) >= FmtResources(f) + 2
          /\ IntOf(f.task_lines[t][FmtResources(f) + 2])
               = Len(f.task_lines[t]) - (FmtResources(f) + 2)

FmtCapacity(f, r) == IntOf(f.cap_line[r])
FmtDuration(f, t) == IntOf(f.task_lines[t][1])
FmtDemand(f, t, r) == IntOf(f.task_lines[t][1 + r])
FmtSuccessorIds(f, t) ==
    {IntOf(f.task_lines[t][k]) :
        k \in (FmtResources(f) + 3)..Len(f.task_lines[t])}

IdsInRange(f) ==
    \A t \in 1..FmtTasks(f) : FmtSuccessorIds(f, t) \subseteq 1..FmtTasks(f)

ValidInstance(f) == WellFormed(f) /\ IdsInRange(f)

DemandExceedsCapacity(f) ==
    \E t \in 1..FmtTasks(f), r \in 1..FmtResources(f) :
        FmtDemand(f, t, r) > FmtCapacity(f, r)

\* the tasks reached from task t along 1..k successor edges
RECURSIVE ReachedIn(_, _, _)
ReachedIn(f, t, k) ==
    IF k = 0 THEN {}
    ELSE LET direct == FmtSuccessorIds(f, t) \cap 1..FmtTasks(f)
         IN  direct \cup UNION {ReachedIn(f, s, k - 1) : s \in direct}

HasCycle(f) == \E t \in 1..FmtTasks(f) : t \in ReachedIn(f, t, FmtTasks(f))

Returned == pc = "returned"
Record == ret[1]
HasSchedule == Returned /\ Record.status \in {"optimal", "feasible"}

\* a call in which the solver, if started, neither raised nor was stopped by
\* the time limit
CleanRun == ~res.raised /\ res.stop_cause # "SearchStoppedByLimit"

\* the schedule behind a returned makespan, against the file's own fields
SchedEnd(t) == res.starts[t] + FmtDuration(data_file, t)

RECURSIVE UsageAt(_, _, _)
UsageAt(r, at, todo) ==
    IF todo = {} THEN 0
    ELSE LET t == CHOOSE u \in todo : TRUE
         IN  (IF res.starts[t] <= at /\ at < SchedEnd(t)
              THEN FmtDemand(data_file, t, r) ELSE 0)
               + UsageAt(r, at, todo \ {t})

LatestEnd ==
    CHOOSE e \in {SchedEnd(t) : t \in 1..FmtTasks(data_file)} :
        \A t \in 1..FmtTasks(data_file) : SchedEnd(t) <= e

\* C1: for a valid instance, the schedule behind an optimal or feasible
\* result respects every precedence edge of the file (end of t <= start of
\* each listed successor), keeps every resource's usage within its capacity
\* at every integer instant, and the reported makespan is the latest end.
C1_ScheduleIsValid ==
    (HasSchedule /\ ValidInstance(data_file)) =>
        /\ \A t \in 1..FmtTasks(data_file) :
              \A s \in FmtSuccessorIds(data_file, t) : SchedEnd(t) <= res.starts[s]
        /\ \A r \in 1..FmtResources(data_file) : \A at \in 0..LatestEnd :
              UsageAt(r, at, 1..FmtTasks(data_file)) <= FmtCapacity(data_file, r)
        /\ Record.makespan = <<LatestEnd>>

\* a valid two-task instance with a precedence edge and both tasks competing
\* for a resource has been solved
C1_Witness ==
    /\ HasSchedule
    /\ ValidInstance(data_file)
    /\ FmtTasks(data_file) = 2
    /\ FmtResources(data_file) = 1
    /\ FmtSuccessorIds(data_file, 1) = {2}
    /\ FmtDemand(data_file, 1, 1) > 0
    /\ FmtDemand(data_file, 2, 1) > 0
    /\ FmtDuration(data_file, 1) > 0
    /\ Record.makespan = <<2>>

\* C3: a successor id outside 1..NB_TASKS (below 1 or above NB_TASKS) gives
\* the error record, and no precedence constraint posted for such an id is
\* in a model the solver was started on (stated for the calls in which the
\* solver itself does not fail or time out).
C3_OutOfRangeIdIsError ==
    (Returned /\ CleanRun /\ WellFormed(data_file) /\ ~IdsInRange(data_file)) =>
        /\ Record = ErrorRecord
        /\ solver_calls > 0 => \A c \in mdl.prec : c.id \in 1..FmtTasks(data_file)

\* C4: a single task demanding more of a resource than its capacity gives
\* the error record, decided without starting the solver (stated for the
\* calls in which the solver itself does not fail or time out).
C4_DemandOverCapacityIsError ==
    (Returned /\ CleanRun /\ WellFormed(data_file) /\ DemandExceedsCapacity(data_file)) =>
        /\ Record = ErrorRecord
        /\ solver_calls = 0

\* C5: a cycle in the successor relation (a self-loop and a cycle of
\* zero-duration tasks included) gives the error record, never optimal,
\* feasible or unknown (stated for the calls in which the solver itself does
\* not fail or time out).
C5_CycleIsError ==
    (Returned /\ CleanRun /\ WellFormed(data_file) /\ HasCycle(data_file)) =>
        Record = ErrorRecord

\* C8: a malformed file (malformed header, wrong token count on the
\* capacity line or a task line, a num_successors field that disagrees with
\* the ids that follow, fewer task lines than NB_TASKS, a non-integer field)
\* gives the error record and the solver is never invoked on it (stated for
\* the calls in which the solver, if invoked, does not fail or time out).
C8_MalformedIsError ==
    (Returned /\ CleanRun /\ ~WellFormed(data_file)) =>
        /\ Record = ErrorRecord
        /\ solver_calls = 0

\* C7: a stop at the time limit is never reported as an error: the status
\* is feasible when a schedule had been found and unknown when none had;
\* and the status is optimal only when the solver reports "Optimal".
C7_TimeLimitIsNotAnError ==
    Returned =>
        /\ res.stop_cause = "SearchStoppedByLimit" =>
              Record.status = (IF res.is_solution THEN "feasible" ELSE "unknown")
        /\ Record.status = "optimal" => res.solve_status = "Optimal"

\* the solver stopped at the time limit with a schedule in hand
C7_Witness ==
    /\ Returned
    /\ res.stop_cause = "SearchStoppedByLimit"
    /\ res.is_solution
    /\ Record.status = "feasible"

\* C10: every call returns exactly one record, its status is one of
\* optimal, feasible, unknown, error, and its makespan is present exactly
\* when the status is optimal or feasible.
C10_OneSoundRecord ==
    /\ Len(ret) <= 1
    /\ Returned <=> Len(ret) = 1
    /\ Returned =>
          /\ Record.status \in {"optimal", "feasible", "unknown", "error"}
          /\ Len(Record.makespan) = 1 <=> Record.status \in {"optimal", "feasible"}

\* a call has returned a proven optimum, its makespan present
C10_Witness ==
    /\ Returned
    /\ res.solve_status = "Optimal"
    /\ Record.status = "optimal"
    /\ Len(Record.makespan) = 1

\* the files equal to f but for the third token of the header
Twins(f) ==
    {[f EXCEPT !.first_line = SubSeq(f.first_line, 1, 2) \o b] : b \in BoundTokens}

\* C6: the header's third token never influences the result: the posted
\* model (constraints and objective) is the one posted for every file that
\* differs only in that token, the returned record is one the call can
\* return for each such file, and no bound on the makespan is posted.
C6_BoundNeverUsed ==
    Len(data_file.first_line) >= 2 =>
        \A twin \in Twins(data_file) :
            /\ pc \in {"modelled", "solved", "returned"} => mdl = ModelOf(twin)
            /\ Returned => Record \in solve_rcpsp(twin)
            /\ mdl.ub = {}

\* a file whose bound token is smaller than the makespan returned for it
C6_Witness ==
    /\ HasSchedule
    /\ Len(data_file.first_line) = 3
    /\ IsIntTok(data_file.first_line[3])
    /\ Len(Record.makespan) = 1
    /\ IntOf(data_file.first_line[3]) < Record.makespan[1]

\* ------------------------------------------------------------------------
\* main: file names, as the character codes Python compares
\* ------------------------------------------------------------------------
DotData == <<46, 100, 97, 116, 97>>
DotTxt == <<46, 116, 120, 116>>

\* "j90<d1><d2>_<i>" followed by an extension
Name(d1, d2, i, ext) == <<106, 57, 48, 48 + d1, 48 + d2, 95, 48 + i>> \o ext

\* line 145
start_file == Name(1, 0, 1, DotData)

\* the starting file the module docstring and the comment of line 157 name
DocumentedStartFile == Name(2, 9, 4, DotData)

\* what the data directory may hold
DirectoryEntries ==
    {Name(0, 1, 1, DotData), Name(1, 0, 1, DotData), Name(2, 9, 4, DotData),
     Name(3, 0, 1, DotData), Name(2, 9, 4, DotTxt)}

\* the order of list.sort() on paths of one directory: by code point
LexLess(a, b) ==
    \E k \in 1..MinOf(Len(a), Len(b)) + 1 :
        /\ \A j \in 1..(k - 1) : a[j] = b[j]
        /\ IF k <= Len(a) /\ k <= Len(b) THEN a[k] < b[k] ELSE k > Len(a) /\ k <= Len(b)

\* data_dir.glob("*.data")
MatchesData(name) ==
    /\ Len(name) >= Len(DotData)
    /\ SubSeq(name, Len(name) - Len(DotData) + 1, Len(name)) = DotData

RECURSIVE ListOf(_)
ListOf(S) == IF S = {} THEN <<>>
             ELSE LET x == CHOOSE y \in S : TRUE IN <<x>> \o ListOf(S \ {x})

\* lines 132 and 142
SortedDataFiles(dir) == SortSeq(ListOf({n \in dir : MatchesData(n)}), LexLess)

\* lines 146-151: the first index holding start_file, 0 for None
StartIndex(files) ==
    IF \E k \in 1..Len(files) : files[k] = start_file
    THEN CHOOSE k \in 1..Len(files) :
            /\ files[k] = start_file
            /\ \A j \in 1..(k - 1) : files[j] # start_file
    ELSE 0

\* instance files the directory's files may hold: a solvable one, one that
\* does not parse, one with no schedule
SampleFiles ==
    {FileOf(2, 1, <<>>, <<1>>, <<1, 1>>, <<<<1>>, <<1>>>>, <<<<2>>, <<>>>>),
     [FileOf(1, 0, <<>>, <<>>, <<1>>, <<<<>>>>, <<<<>>>>) EXCEPT !.first_line = <<>>],
     FileOf(1, 1, <<>>, <<1>>, <<1>>, <<<<2>>>>, <<<<>>>>)}

\* line 182
MakespanStr(makespan) == IF makespan = <<>> THEN "N/A" ELSE ToString(makespan[1])

\* lines 185-190 (the solve time column is left out)
ResultRow(name, rec) ==
    [file_name |-> name, makespan |-> MakespanStr(rec.makespan), status |-> rec.status]

\* lines 206-211
ErrorRow(name) == [file_name |-> name, makespan |-> "Error", status |-> "error"]

InitMain ==
    /\ SolveAt(CHOOSE f \in SampleFiles : TRUE, "idle")
    /\ data_dir \in SUBSET DirectoryEntries
    /\ main_pc = "start"
    /\ all_data_files = <<>>
    /\ data_files = <<>>
    /\ next_file = 0
    /\ csv_header = FALSE
    /\ csv_rows = <<>>

\* lines 124-163: glob, sort, look for start_file, slice
SelectFiles ==
    /\ main_pc = "start"
    /\ all_data_files' = SortedDataFiles(data_dir)
    /\ IF all_data_files' = <<>> \/ StartIndex(all_data_files') = 0
       THEN /\ main_pc' = "returned"
            /\ data_files' = data_files
       ELSE /\ data_files' = SubSeq(all_data_files', StartIndex(all_data_files'),
                                    Len(all_data_files'))
            /\ main_pc' = "selected"
    /\ UNCHANGED <<data_dir, next_file, csv_header, csv_rows, solveVars>>

\* lines 166-169
OpenCsv ==
    /\ main_pc = "selected"
    /\ csv_header' = TRUE
    /\ next_file' = 1
    /\ main_pc' = "loop"
    /\ UNCHANGED <<data_dir, all_data_files, data_files, csv_rows, solveVars>>

\* lines 172-212, one iteration.  solve_rcpsp returns one of its records for
\* the file's content; each writerow and flush either succeeds or raises.
\* A row handed to writerow stays in the file whether or not the flush that
\* follows succeeds.  An exception raised inside the except block leaves
\* the loop and main.
ProcessFile ==
    /\ main_pc = "loop"
    /\ next_file <= Len(data_files)
    /\ \E f \in SampleFiles, write_ok \in BOOLEAN, flush_ok \in BOOLEAN,
          err_write_ok \in BOOLEAN, err_flush_ok \in BOOLEAN :
         \E rec \in solve_rcpsp(f) :
            LET name == data_files[next_file]
                tried == IF write_ok THEN Append(csv_rows, ResultRow(name, rec))
                         ELSE csv_rows
            IN  IF write_ok /\ flush_ok
                THEN /\ csv_rows' = tried
                     /\ next_file' = next_file + 1
                     /\ main_pc' = "loop"
                ELSE /\ csv_rows' = IF err_write_ok THEN Append(tried, ErrorRow(name))
                                    ELSE tried
                     /\ IF err_write_ok /\ err_flush_ok
                        THEN next_file' = next_file + 1 /\ main_pc' = "loop"
                        ELSE next_file' = next_file /\ main_pc' = "raised"
    /\ UNCHANGED <<data_dir, all_data_files, data_files, csv_header, solveVars>>

\* line 214, after the last file
FinishLoop ==
    /\ main_pc = "loop"
    /\ next_file > Len(data_files)
    /\ main_pc' = "upload"
    /\ UNCHANGED <<data_dir, all_data_files, data_files, next_file, csv_header,
                   csv_rows, solveVars>>

\* lines 216-226: the name storage is never imported, so line 218 raises
Upload ==
    /\ main_pc = "upload"
    /\ main_pc' = "raised"
    /\ UNCHANGED <<data_dir, all_data_files, data_files, next_file, csv_header,
                   csv_rows, solveVars>>

NextMain == SelectFiles \/ OpenCsv \/ ProcessFile \/ FinishLoop \/ Upload

SpecMain == InitMain /\ [][NextMain]_vars

RowNames == [k \in 1..Len(csv_rows) |-> csv_rows[k].file_name]

\* C2: in the batch loop every selected file gets exactly one result row,
\* rows are in the order of the files, and no failure on one file (a solver
\* error, an exception while writing or flushing its row) keeps the later
\* files from being processed: the loop never ends early, and after it the
\* rows name the files one for one.
C2_OneRowPerFile ==
    /\ main_pc = "loop" => RowNames = SubSeq(data_files, 1, next_file - 1)
    /\ main_pc = "upload" => RowNames = data_files
    /\ main_pc = "raised" => next_file > Len(data_files)

\* C9: the files processed are the .data files of the directory in
\* ascending order from j9029_4.data on; nothing sorted before it is
\* processed, and without it nothing is processed and no row is written.
C9_StartsAtDocumentedFile ==
    main_pc # "start" =>
        /\ \A k \in 1..Len(data_files) : ~LexLess(data_files[k], DocumentedStartFile)
        /\ {data_files[k] : k \in 1..Len(data_files)} =
              IF DocumentedStartFile \in data_dir
              THEN {n \in data_dir : MatchesData(n) /\ ~LexLess(n, DocumentedStartFile)}
              ELSE {}
        /\ \A j, k \in 1..Len(data_files) : j < k => LexLess(data_files[j], data_files[k])
        /\ DocumentedStartFile \notin data_dir => csv_rows = <<>>

====
